---- MODULE Spec2Model ----
(***************************************************************************)
(* A model of the ETL scripts of prod_assistant: the Flipkart scraper      *)
(* (data_scrapper.py), the Amazon dataset converter                         *)
(* (convert_amazon_data.py) and the vector-store ingestion                  *)
(* (data_ingestion.py, driven by scrapper_ui.py).                           *)
(*                                                                         *)
(* Python strings on which the code does character work (strip, replace,   *)
(* len, slicing, join, regular expressions) are sequences of one-character *)
(* strings.  The glyph U+2B50 of convert_amazon_data.py:88 is written "*". *)
(***************************************************************************)
EXTENDS Integers, Sequences, FiniteSets, TLC

VARIABLES
    prog,        \* the entry point this run executes
    pc,          \* position of the entry point
    exOut,       \* _get_text_safe: the call made and the value it returned
    vpc,         \* get_top_reviews: position ("idle" when not running)
    vUrl,        \* get_top_reviews: product_url
    vCount,      \* get_top_reviews: count
    vSess,       \* get_top_reviews: index in sessions of its browser, 0 before launch
    vScroll,     \* get_top_reviews: iterations of the scroll loop executed
    vBlocks,     \* get_top_reviews: review_blocks
    vReviews,    \* get_top_reviews: reviews
    vTrace,      \* get_top_reviews: the steps executed by the current call, in order
    vResult,     \* get_top_reviews: the value returned
    sessions,    \* every browser launched so far: "open", "closed" or "stopped"
    sReviewCount, \* scrape_flipkart_products: review_count
    sSess,       \* scrape_flipkart_products: index in sessions of its browser
    sItems,      \* scrape_flipkart_products: items
    sIdx,        \* scrape_flipkart_products: cards of items processed
    sExtracted,  \* scrape_flipkart_products: extracted_data
    sK,          \* scrape_flipkart_products: records of extracted_data visited
    sProducts,   \* scrape_flipkart_products: products
    sReturned,   \* scrape_flipkart_products: how the call ended, "" before
    file,        \* data/product_reviews.csv: whether it exists, and its lines
    aMetaRead,   \* stream_amazon_data: items of the metadata stream consumed
    aProducts,   \* stream_amazon_data: products, in insertion order
    aScanned,    \* stream_amazon_data: reviews of the review stream consumed
    aRows,       \* stream_amazon_data: final_rows
    env,         \* the environment variables that are set
    iLog,        \* DataIngestion: the steps executed, in order
    iDf,         \* DataIngestion: product_data (columns and rows)
    iDocs,       \* DataIngestion: the documents transform_data returned
    iUpserted,   \* the documents added to the vector store
    iError       \* DataIngestion: the exception raised, "" if none

visitVars == <<vpc, vUrl, vCount, vSess, vScroll, vBlocks, vReviews, vTrace,
               vResult, sessions>>
scrapeVars == <<sReviewCount, sSess, sItems, sIdx, sExtracted, sK, sProducts,
                sReturned>>
amazonVars == <<aMetaRead, aProducts, aScanned, aRows>>
ingestVars == <<env, iLog, iDf, iDocs, iUpserted, iError>>
vars == <<prog, pc, exOut, visitVars, scrapeVars, file, amazonVars, ingestVars>>

(***************************************************************************)
(* Bounds of the model.                                                    *)
(***************************************************************************)
\* Longest selector list handed to _get_text_safe by the harness.
MaxSel == 2
\* Most review blocks on a product page.
MaxBlocks == 3
\* Largest review cap (count, review_count).
MaxCount == 2
\* Most product cards on a search page.
MaxCards == 2
\* Most items the metadata stream yields.
MaxMeta == 2
\* Most reviews the review stream yields.
MaxScan == 6
\* Most rows of the CSV file the ingestion reads.
MaxRows == 2

(***************************************************************************)
(* Python string primitives.                                               *)
(***************************************************************************)
Rep(c, n) == [i \in 1..n |-> c]

IsSpace(c) == c \in {" ", "\t", "\n"}

RECURSIVE LStrip(_)
LStrip(s) ==
    IF s = <<>> THEN <<>>
    ELSE IF IsSpace(Head(s)) THEN LStrip(Tail(s)) ELSE s

RECURSIVE RStrip(_)
RStrip(s) ==
    IF s = <<>> THEN <<>>
    ELSE IF IsSpace(s[Len(s)]) THEN RStrip(SubSeq(s, 1, Len(s) - 1)) ELSE s

\* str.strip()
Strip(s) == RStrip(LStrip(s))

\* s[i:].startswith(p), i counted from 1
StartsWithAt(s, i, p) ==
    /\ i + Len(p) - 1 <= Len(s)
    /\ \A k \in 1..Len(p) : s[i + k - 1] = p[k]

\* s.startswith(p)
StartsWith(s, p) == StartsWithAt(s, 1, p)

\* p in s
Contains(s, p) == \E i \in 1..(Len(s) + 1) : StartsWithAt(s, i, p)

\* s.replace(p, ""), p not empty: occurrences are removed left to right,
\* without overlap.
RECURSIVE RemoveAll(_, _)
RemoveAll(s, p) ==
    IF s = <<>> THEN <<>>
    ELSE IF StartsWith(s, p) THEN RemoveAll(SubSeq(s, Len(p) + 1, Len(s)), p)
    ELSE <<Head(s)>> \o RemoveAll(Tail(s), p)

\* d.join(parts)
RECURSIVE Join(_, _)
Join(parts, d) ==
    IF parts = <<>> THEN <<>>
    ELSE IF Len(parts) = 1 THEN parts[1]
    ELSE parts[1] \o d \o Join(Tail(parts), d)

\* The set of elements of a sequence.
Range(s) == {s[i] : i \in DOMAIN s}

\* Sequences over S of length at most n.
SeqsUpTo(S, n) == UNION {[1..k -> S] : k \in 0..n}

\* Whether no element of a sequence occurs twice.
NoDuplicates(s) == \A i, j \in DOMAIN s : i # j => s[i] # s[j]

(***************************************************************************)
(* String literals of the source.                                          *)
(***************************************************************************)
\* data_scrapper.py:22
NA == <<"N", "/", "A">>
\* data_scrapper.py:26, 87
NoReviewsFound ==
    <<"N", "o", " ", "r", "e", "v", "i", "e", "w", "s", " ", "f", "o", "u", "n", "d">>
\* data_scrapper.py:84
ErrorFetchingReviews ==
    <<"E", "r", "r", "o", "r", " ", "f", "e", "t", "c", "h", "i", "n", "g", " ",
      "r", "e", "v", "i", "e", "w", "s">>
\* convert_amazon_data.py:100
NoDetailedReviews ==
    <<"N", "o", " ", "d", "e", "t", "a", "i", "l", "e", "d", " ", "r", "e", "v",
      "i", "e", "w", "s", " ", "a", "v", "a", "i", "l", "a", "b", "l", "e", ".">>
\* data_scrapper.py:87, convert_amazon_data.py:97
Delim == <<" ", "|", "|", " ">>
\* data_scrapper.py:25, 133
Http == <<"h", "t", "t", "p">>
\* data_scrapper.py:133
FlipkartBase ==
    <<"h", "t", "t", "p", "s", ":", "/", "/", "w", "w", "w", ".", "f", "l", "i",
      "p", "k", "a", "r", "t", ".", "c", "o", "m">>
\* data_scrapper.py:143
Flipkart == <<"f", "l", "i", "p", "k", "a", "r", "t">>
\* data_scrapper.py:72
ReadMore == <<"R", "E", "A", "D", " ", "M", "O", "R", "E">>

(***************************************************************************)
(* FlipkartScraper._get_text_safe.  A lookup outcome is what               *)
(* item.query_selector(selector) and el.inner_text() do for one selector:  *)
(* the query raises, the query returns None, inner_text raises, or         *)
(* inner_text returns a text.                                              *)
(***************************************************************************)
Absent == [kind |-> "absent", text |-> <<>>]
QueryRaises == [kind |-> "query_raises", text |-> <<>>]
TextRaises == [kind |-> "text_raises", text |-> <<>>]
El(t) == [kind |-> "el", text |-> t]

RECURSIVE GetTextSafe(_, _)
GetTextSafe(item, selectors) ==
    IF selectors = <<>> THEN NA
    ELSE LET o == item[Head(selectors)] IN
         IF o.kind = "el" THEN Strip(o.text)
         ELSE GetTextSafe(item, Tail(selectors))

\* The selectors, lookup outcomes and selector lists the harness draws from.
HarnessSelectors == {"div.A", "div.B", "div.C"}
HarnessOutcomes ==
    {Absent, QueryRaises, TextRaises, El(<<>>), El(<<" ", "\n">>),
     El(<<" ", " ", "$", "1", "2", " ", " ">>), El(<<"o", "k">>)}
HarnessItems == [HarnessSelectors -> HarnessOutcomes]
HarnessSelectorLists ==
    {l \in SeqsUpTo(HarnessSelectors, MaxSel) : NoDuplicates(l)}

\* A call extract(item, selectors) made by the harness.
ExtractCall ==
    /\ prog = "extract" /\ pc = "start"
    /\ \E item \in HarnessItems, sel \in HarnessSelectorLists :
          exOut' = [called |-> TRUE, item |-> item, selectors |-> sel,
                    value |-> GetTextSafe(item, sel)]
    /\ pc' = "done"
    /\ UNCHANGED <<prog, ingestVars, visitVars, scrapeVars, file, amazonVars>>

(***************************************************************************)
(* FlipkartScraper.get_top_reviews: the review loop (lines 68-78).         *)
(* A review block is the list of its text nodes.                           *)
(***************************************************************************)
\* len(text) > 20 (line 74)
MinLength == 20
\* range(5) (line 57)
ScrollIterations == 5

\* The stripped, non-empty text nodes of a block.
RECURSIVE StrippedNodes(_)
StrippedNodes(block) ==
    IF block = <<>> THEN <<>>
    ELSE LET t == Strip(Head(block)) IN
         IF t = <<>> THEN StrippedNodes(Tail(block))
         ELSE <<t>> \o StrippedNodes(Tail(block))

\* block.get_text(separator=" ", strip=True)
GetText(block) == Join(StrippedNodes(block), <<" ">>)

\* text.replace("READ MORE", "").strip() (line 72)
CleanText(block) == Strip(RemoveAll(GetText(block), ReadMore))

\* The condition of line 74.
KeepReview(text, seen) ==
    text # <<>> /\ text \notin seen /\ Len(text) > MinLength

\* The loop of lines 69-78, from a given reviews list and seen set.
RECURSIVE ReviewLoop(_, _, _, _)
ReviewLoop(blocks, count, reviews, seen) ==
    IF blocks = <<>> THEN reviews
    ELSE LET text == CleanText(Head(blocks))
             keep == KeepReview(text, seen)
             reviews2 == IF keep THEN Append(reviews, text) ELSE reviews
             seen2 == IF keep THEN seen \cup {text} ELSE seen
         IN  IF Len(reviews2) >= count THEN reviews2
             ELSE ReviewLoop(Tail(blocks), count, reviews2, seen2)

CollectReviews(blocks, count) == ReviewLoop(blocks, count, <<>>, {})

\* Line 87.
JoinReviews(reviews) ==
    IF reviews # <<>> THEN Join(reviews, Delim) ELSE NoReviewsFound

(***************************************************************************)
(* FlipkartScraper.get_top_reviews as the steps of one call.  A step that  *)
(* can raise draws whether it does.  vTrace lists the steps the call has   *)
(* attempted; it ends with "Return" (lines 86-87) or "Except" (lines       *)
(* 82-84).                                                                 *)
(***************************************************************************)
\* The review blocks a product page may hold.
BlockKinds ==
    { <<Rep("a", 21)>>,
      <<<<" ">> \o Rep("a", 21) \o <<"\n">>, ReadMore>>,
      <<Rep("b", 20)>>,
      <<Rep("c", 12), ReadMore, Rep("c", 12)>>,
      <<Rep("d", 12) \o <<" ">> \o ReadMore>>,
      <<ReadMore, <<" ", " ">>>> }
Pages == SeqsUpTo(BlockKinds, MaxBlocks)

\* The pages served to the visits a search run makes.
SitePages ==
    { <<>>,
      << <<Rep("a", 21)>> >>,
      << <<Rep("a", 21)>>, <<Rep("a", 21), ReadMore>>, <<Rep("e", 22)>> >> }

\* The pages a visit may find: any page when called alone, a page of the
\* site when called from scrape_flipkart_products.
PagesFor(p) == IF p = "scrape" THEN SitePages ELSE Pages

\* The browser with index i (0: none was launched), marked with a status.
MarkSession(i, s) ==
    IF i = 0 THEN sessions ELSE [sessions EXCEPT ![i] = s]

\* Leaving the "with sync_playwright()" block stops the driver: a browser
\* still open is torn down without browser.close() having run.
StopOpenSession(i) ==
    IF i # 0 /\ sessions[i] = "open" THEN MarkSession(i, "stopped")
    ELSE sessions

\* The entry of a call get_top_reviews(url, count).
VisitEnter(url, count) ==
    /\ vpc' = "check"
    /\ vUrl' = url
    /\ vCount' = count
    /\ vSess' = 0
    /\ vScroll' = 0
    /\ vBlocks' = <<>>
    /\ vReviews' = <<>>
    /\ vTrace' = <<>>
    /\ vResult' = <<>>

\* Lines 25-29.
VisitCheckUrl ==
    /\ vpc = "check"
    /\ IF ~StartsWith(vUrl, Http)
       THEN /\ vResult' = NoReviewsFound
            /\ vpc' = "ret"
       ELSE /\ vpc' = "launch"
            /\ UNCHANGED vResult
    /\ UNCHANGED <<prog, ingestVars, pc, exOut, scrapeVars, file, amazonVars, amazonVars, vUrl, vCount, vSess, vScroll, vBlocks,
                   vReviews, vTrace, sessions>>

\* Lines 32-39: the driver starts, the browser is launched, a context and a
\* page are made.  The launch may fail, or a later call of the three.
VisitLaunch ==
    /\ vpc = "launch"
    /\ \E outcome \in {"ok", "launch_raises", "page_raises"} :
          /\ IF outcome = "launch_raises"
             THEN UNCHANGED <<sessions, vSess>>
             ELSE /\ sessions' = Append(sessions, "open")
                  /\ vSess' = Len(sessions) + 1
          /\ vpc' = IF outcome = "ok" THEN "goto" ELSE "except"
    /\ vTrace' = Append(vTrace, "Launch")
    /\ UNCHANGED <<prog, ingestVars, pc, exOut, scrapeVars, file, amazonVars, amazonVars, vUrl, vCount, vScroll, vBlocks, vReviews,
                   vResult>>

\* Line 42.
VisitNavigate ==
    /\ vpc = "goto"
    /\ \E raises \in BOOLEAN : vpc' = IF raises THEN "except" ELSE "popup"
    /\ vTrace' = Append(vTrace, "Navigate")
    /\ UNCHANGED <<prog, ingestVars, pc, exOut, scrapeVars, file, amazonVars, amazonVars, vUrl, vCount, vSess, vScroll, vBlocks,
                   vReviews, vResult, sessions>>

\* Lines 45-52, with the overlay failing: nothing to dismiss.
VisitDismissOverlayFatal ==
    /\ vpc = "popup"
    /\ \E outcome \in {"clicked", "no_button", "wait_raises", "click_raises"} :
          vpc' = IF outcome \in {"wait_raises", "click_raises"}
                 THEN "except" ELSE "scroll"
    /\ vTrace' = Append(vTrace, "DismissOverlay")
    /\ UNCHANGED <<prog, ingestVars, pc, exOut, scrapeVars, file, amazonVars, amazonVars, vUrl, vCount, vSess, vScroll, vBlocks,
                   vReviews, vResult, sessions>>

\* Lines 45-52: the wait for the close button may time out and the click
\* may raise; the bare except swallows both.
VisitDismissOverlay ==
    /\ vpc = "popup"
    /\ \E outcome \in {"clicked", "no_button", "wait_raises", "click_raises"} :
          vpc' = "scroll"
    /\ vTrace' = Append(vTrace, "DismissOverlay")
    /\ UNCHANGED <<prog, ingestVars, pc, exOut, scrapeVars, file, amazonVars, amazonVars, vUrl, vCount, vSess, vScroll, vBlocks,
                   vReviews, vResult, sessions>>

\* Lines 57-59: one iteration of the scroll loop.
VisitScroll ==
    /\ vpc = "scroll"
    /\ \E raises \in BOOLEAN :
          IF raises
          THEN /\ vpc' = "except"
               /\ UNCHANGED vScroll
          ELSE /\ vScroll' = vScroll + 1
               /\ vpc' = IF vScroll + 1 >= ScrollIterations THEN "parse"
                         ELSE "scroll"
    /\ vTrace' = Append(vTrace, "Scroll")
    /\ UNCHANGED <<prog, ingestVars, pc, exOut, scrapeVars, file, amazonVars, amazonVars, vUrl, vCount, vSess, vBlocks, vReviews,
                   vResult, sessions>>

\* Lines 61-66: page.content() is parsed and the review blocks are selected.
VisitParseDOM ==
    /\ vpc = "parse"
    /\ \E raises \in BOOLEAN :
          IF raises
          THEN /\ vpc' = "except"
               /\ UNCHANGED vBlocks
          ELSE /\ \E blocks \in PagesFor(prog) : vBlocks' = blocks
               /\ vpc' = "extract"
    /\ vTrace' = Append(vTrace, "ParseDOM")
    /\ UNCHANGED <<prog, ingestVars, pc, exOut, scrapeVars, file, amazonVars, amazonVars, vUrl, vCount, vSess, vScroll, vReviews,
                   vResult, sessions>>

\* Lines 68-78.
VisitExtractReviews ==
    /\ vpc = "extract"
    /\ vReviews' = CollectReviews(vBlocks, vCount)
    /\ vpc' = "close"
    /\ vTrace' = Append(vTrace, "ExtractReviews")
    /\ UNCHANGED <<prog, ingestVars, pc, exOut, scrapeVars, file, amazonVars, amazonVars, vUrl, vCount, vSess, vScroll, vBlocks,
                   vResult, sessions>>

\* Line 80.
VisitClose ==
    /\ vpc = "close"
    /\ \E raises \in BOOLEAN :
          IF raises
          THEN /\ vpc' = "except"
               /\ UNCHANGED sessions
          ELSE /\ sessions' = MarkSession(vSess, "closed")
               /\ vpc' = "return"
    /\ vTrace' = Append(vTrace, "Close")
    /\ UNCHANGED <<prog, ingestVars, pc, exOut, scrapeVars, file, amazonVars, amazonVars, vUrl, vCount, vSess, vScroll, vBlocks,
                   vReviews, vResult>>

\* Lines 82-84: the exception leaves the with block and is caught.
VisitExcept ==
    /\ vpc = "except"
    /\ sessions' = StopOpenSession(vSess)
    /\ vResult' = ErrorFetchingReviews
    /\ vpc' = "ret"
    /\ vTrace' = Append(vTrace, "Except")
    /\ UNCHANGED <<prog, ingestVars, pc, exOut, scrapeVars, file, amazonVars, amazonVars, vUrl, vCount, vSess, vScroll, vBlocks,
                   vReviews>>

\* The end of the with block, then lines 86-87.
VisitReturn ==
    /\ vpc = "return"
    /\ sessions' = StopOpenSession(vSess)
    /\ vResult' = JoinReviews(vReviews)
    /\ vpc' = "ret"
    /\ vTrace' = Append(vTrace, "Return")
    /\ UNCHANGED <<prog, ingestVars, pc, exOut, scrapeVars, file, amazonVars, amazonVars, vUrl, vCount, vSess, vScroll, vBlocks,
                   vReviews>>

VisitStep ==
    \/ VisitCheckUrl
    \/ VisitLaunch
    \/ VisitNavigate
    \/ VisitDismissOverlay
    \/ VisitScroll
    \/ VisitParseDOM
    \/ VisitExtractReviews
    \/ VisitClose
    \/ VisitExcept
    \/ VisitReturn

\* The product URLs the harness visits.
HarnessUrls ==
    { FlipkartBase \o <<"/", "p", "/", "i", "t", "m", "A", "1">>, NA }

\* A call get_top_reviews(url, count) made by the harness.
HarnessVisit ==
    /\ prog = "visit" /\ pc = "start"
    /\ \E url \in HarnessUrls, count \in 0..MaxCount : VisitEnter(url, count)
    /\ pc' = "visiting"
    /\ UNCHANGED <<prog, ingestVars, exOut, sessions, scrapeVars, file, amazonVars>>

HarnessVisitDone ==
    /\ prog = "visit" /\ pc = "visiting" /\ vpc = "ret"
    /\ pc' = "done"
    /\ UNCHANGED <<prog, ingestVars, exOut, visitVars, scrapeVars, file, amazonVars>>

(***************************************************************************)
(* FlipkartScraper.scrape_flipkart_products: one product card (lines       *)
(* 118-157).  A card is the item handle: what each selector of the four    *)
(* lists resolves to, its img, its first a[href*='/p/'] and its first a.   *)
(***************************************************************************)
Digits == {"0", "1", "2", "3", "4", "5", "6", "7", "8", "9"}
Letters ==
    {"a", "b", "c", "d", "e", "f", "g", "h", "i", "j", "k", "l", "m", "n",
     "o", "p", "q", "r", "s", "t", "u", "v", "w", "x", "y", "z", "A", "B",
     "C", "D", "E", "F", "G", "H", "I", "J", "K", "L", "M", "N", "O", "P",
     "Q", "R", "S", "T", "U", "V", "W", "X", "Y", "Z"}
Alnum == Digits \cup Letters

\* str(n), n >= 0
RECURSIVE IntToStr(_)
IntToStr(n) ==
    LET d == <<"0", "1", "2", "3", "4", "5", "6", "7", "8", "9">>[(n % 10) + 1]
    IN  IF n < 10 THEN <<d>> ELSE IntToStr(n \div 10) \o <<d>>

\* The index after the longest run of characters of S that starts at i.
RECURSIVE RunEnd(_, _, _)
RunEnd(s, i, S) ==
    IF i <= Len(s) /\ s[i] \in S THEN RunEnd(s, i + 1, S) ELSE i

\* r"/p/(itm[0-9A-Za-z]+)" matched at i: the index after the match, 0 if none.
ItmPattern == <<"/", "p", "/", "i", "t", "m">>
ItmMatchEnd(s, i) ==
    IF StartsWithAt(s, i, ItmPattern)
       /\ RunEnd(s, i + Len(ItmPattern), Alnum) > i + Len(ItmPattern)
    THEN RunEnd(s, i + Len(ItmPattern), Alnum)
    ELSE 0

\* re.findall(r"/p/(itm[0-9A-Za-z]+)", href): the groups of the matches,
\* leftmost first, without overlap.
RECURSIVE ItmFindAllFrom(_, _)
ItmFindAllFrom(s, i) ==
    IF i > Len(s) THEN <<>>
    ELSE LET e == ItmMatchEnd(s, i) IN
         IF e = 0 THEN ItmFindAllFrom(s, i + 1)
         ELSE <<SubSeq(s, i + 3, e - 1)>> \o ItmFindAllFrom(s, e)

ItmFindAll(s) == ItmFindAllFrom(s, 1)

\* The lookahead (?=\s+Reviews) at index j.
ReviewsWord == <<"R", "e", "v", "i", "e", "w", "s">>
ReviewsAhead(s, j) ==
    LET k == RunEnd(s, j, {" ", "\t", "\n"}) IN
    k > j /\ StartsWithAt(s, k, ReviewsWord)

\* r"\d+(,\d+)?(?=\s+Reviews)" matched at i: the index after the match, 0 if
\* none.  A shorter run of digits is followed by a digit, so only the
\* longest runs can be followed by the group or by the lookahead.
ReviewCountMatchEnd(s, i) ==
    LET j == RunEnd(s, i, Digits)
        k == IF j <= Len(s) /\ s[j] = "," THEN RunEnd(s, j + 1, Digits) ELSE 0
    IN  IF j = i THEN 0
        ELSE IF k > j + 1 /\ ReviewsAhead(s, k) THEN k
        ELSE IF ReviewsAhead(s, j) THEN j
        ELSE 0

\* re.search(...).group(0), or "0" when there is no match (lines 140-141).
RECURSIVE ReviewCountFrom(_, _)
ReviewCountFrom(s, i) ==
    IF i > Len(s) THEN <<"0">>
    ELSE LET e == ReviewCountMatchEnd(s, i) IN
         IF e = 0 THEN ReviewCountFrom(s, i + 1) ELSE SubSeq(s, i, e - 1)

TotalReviews(reviews_text) == ReviewCountFrom(reviews_text, 1)

\* The selector lists of lines 120, 126, 136 and 139.
TitleSelectors == <<"div.KzDlHZ", "a.wjcEIp", "div._4rR01T", "a.s1Q9rs">>
PriceSelectors == <<"div.Nx9bqj", "div._30jeq3">>
RatingSelectors == <<"div.XQDdHH", "div._3LWZlK">>
ReviewCountSelectors == <<"span.Wphh3N", "span._2_R_DZ">>
CardSelectors ==
    Range(TitleSelectors) \cup Range(PriceSelectors)
        \cup Range(RatingSelectors) \cup Range(ReviewCountSelectors)

\* An element queried outside _get_text_safe (img, a): the query raises,
\* finds nothing, or finds an element whose attribute is a string or None.
NoElement == [kind |-> "absent", hasAttr |-> FALSE, attr |-> <<>>]
ElementRaises == [kind |-> "raises", hasAttr |-> FALSE, attr |-> <<>>]
ElementNoAttr == [kind |-> "el", hasAttr |-> FALSE, attr |-> <<>>]
ElementWith(a) == [kind |-> "el", hasAttr |-> TRUE, attr |-> a]

\* item_{i} (line 145)
ItemId(i) == <<"i", "t", "e", "m", "_">> \o IntToStr(i)

\* Lines 118-157 for the card at index i of enumerate(items): whether the
\* body raised (the item is skipped), whether a record is appended, and the
\* record.
NoData ==
    [id |-> <<>>, title |-> <<>>, rating |-> <<>>, reviews_count |-> <<>>,
     price |-> <<>>, link |-> <<>>]
CardSkipped == [raised |-> TRUE, appended |-> FALSE, data |-> NoData]
ProcessCard(card, i) ==
    LET title0 == GetTextSafe(card.dom, TitleSelectors)
        title == IF title0 # NA THEN title0
                 ELSE IF card.img.kind # "el" THEN NA
                 ELSE IF card.img.hasAttr /\ card.img.attr # <<>>
                      THEN card.img.attr ELSE NA
        price == GetTextSafe(card.dom, PriceSelectors)
        link_el == IF card.linkP.kind = "el" THEN card.linkP ELSE card.linkA
        href == IF link_el.kind = "el" THEN link_el.attr ELSE <<>>
        product_link == IF StartsWith(href, Http) THEN href
                        ELSE FlipkartBase \o href
        rating == GetTextSafe(card.dom, RatingSelectors)
        total_reviews ==
            TotalReviews(GetTextSafe(card.dom, ReviewCountSelectors))
        id_match == ItmFindAll(href)
        product_id == IF id_match # <<>> THEN id_match[1] ELSE ItemId(i)
    IN  IF \/ title0 = NA /\ card.img.kind = "raises"
           \/ card.linkP.kind = "raises"
           \/ card.linkP.kind = "absent" /\ card.linkA.kind = "raises"
           \/ link_el.kind = "el" /\ ~link_el.hasAttr
        THEN CardSkipped
        ELSE IF (title # NA \/ price # NA) /\ Contains(product_link, Flipkart)
        THEN [raised |-> FALSE, appended |-> TRUE,
              data |-> [id |-> product_id, title |-> title, rating |-> rating,
                        reviews_count |-> total_reviews, price |-> price,
                        link |-> product_link]]
        ELSE [raised |-> FALSE, appended |-> FALSE, data |-> NoData]

\* The cards a search page may hold.
Dom(over) == [s \in CardSelectors |-> IF s \in DOMAIN over THEN over[s] ELSE Absent]
CardPhone ==
    [dom |-> Dom(("div.KzDlHZ" :> El(<<"P", "h", "o", "n", "e", " ", "A">>))
                 @@ ("div.Nx9bqj" :> El(<<" ", "$", "9", " ">>))
                 @@ ("div.XQDdHH" :> El(<<"4", ".", "5">>))
                 @@ ("span.Wphh3N" :> El(<<"1", ",", "2", "3", "4", " ", "R", "a", "t", "i", "n", "g", "s", " ", "&", " ", "5", "6", " ", "R", "e", "v", "i", "e", "w", "s">>))),
     img |-> ElementWith(<<"P", "h", "o", "n", "e", " ", "A">>),
     linkP |-> ElementWith(<<"/", "a", "/", "p", "/", "i", "t", "m", "A", "1", "?", "p", "i", "d", "=", "1">>),
     linkA |-> ElementWith(<<"/", "a", "/", "p", "/", "i", "t", "m", "A", "1", "?", "p", "i", "d", "=", "1">>)]
\* A second card of the same product, with an absolute link.
CardPhoneAgain ==
    [dom |-> Dom(("div.KzDlHZ" :> El(<<>>))
                 @@ ("a.wjcEIp" :> El(<<"P", "h", "o", "n", "e", " ", "A", " ", "(", "a", "d", ")">>))
                 @@ ("div.Nx9bqj" :> TextRaises)
                 @@ ("div._30jeq3" :> El(<<"$", "8">>))
                 @@ ("span._2_R_DZ" :> El(<<"1", ",", "2", "3", "4", " ", "R", "e", "v", "i", "e", "w", "s">>))),
     img |-> NoElement,
     linkP |-> ElementWith(<<"h", "t", "t", "p", "s", ":", "/", "/", "w", "w", "w", ".", "f", "l", "i", "p", "k", "a", "r", "t", ".", "c", "o", "m", "/", "a", "/", "p", "/", "i", "t", "m", "A", "1">>),
     linkA |-> ElementWith(<<"h", "t", "t", "p", "s", ":", "/", "/", "w", "w", "w", ".", "f", "l", "i", "p", "k", "a", "r", "t", ".", "c", "o", "m", "/", "a", "/", "p", "/", "i", "t", "m", "A", "1">>)]
\* A card with no title element and a link that is not a product link.
CardOffer ==
    [dom |-> Dom(("div.XQDdHH" :> QueryRaises) @@ ("div._3LWZlK" :> El(<<"4">>))),
     img |-> ElementWith(<<"C", "a", "b", "l", "e">>),
     linkP |-> NoElement,
     linkA |-> ElementWith(<<"/", "o", "f", "f", "e", "r", "s">>)]
\* A card that links to another site.
CardExternal ==
    [dom |-> Dom(("div._4rR01T" :> El(<<"P", "r", "o", "m", "o">>))),
     img |-> NoElement,
     linkP |-> NoElement,
     linkA |-> ElementWith(<<"h", "t", "t", "p", ":", "/", "/", "a", "d", "s", ".", "e", "x", "a", "m", "p", "l", "e", ".", "c", "o", "m", "/", "x">>)]
\* A card whose link has no href.
CardNoHref ==
    [dom |-> Dom(("a.s1Q9rs" :> El(<<"C", "a", "s", "e">>))),
     img |-> NoElement,
     linkP |-> ElementNoAttr,
     linkA |-> ElementNoAttr]
\* A card with nothing in it, whose img has no alt.
CardEmpty ==
    [dom |-> Dom(<<>>),
     img |-> ElementNoAttr,
     linkP |-> NoElement,
     linkA |-> NoElement]
\* A card with a price and no title, whose img cannot be queried.
CardBroken ==
    [dom |-> Dom(("div._30jeq3" :> El(<<"$", "5">>))),
     img |-> ElementRaises,
     linkP |-> NoElement,
     linkA |-> NoElement]
CardKinds ==
    {CardPhone, CardPhoneAgain, CardOffer, CardExternal, CardNoHref, CardEmpty,
     CardBroken}

(***************************************************************************)
(* FlipkartScraper.scrape_flipkart_products as the steps of one call, and  *)
(* FlipkartScraper.save_to_csv.                                            *)
(***************************************************************************)
\* Line 189.
Header ==
    <<"product_id", "product_title", "rating", "total_reviews", "price",
      "top_reviews">>

\* A call scrape_flipkart_products(query, max_products, review_count) made
\* by the harness; max_products is drawn where it is used (line 113).
HarnessScrape ==
    /\ prog = "scrape" /\ pc = "start"
    /\ \E rc \in 0..MaxCount : sReviewCount' = rc
    /\ pc' = "s_launch"
    /\ UNCHANGED <<prog, ingestVars, exOut, visitVars, sSess, sItems, sIdx, sExtracted,
                   sK, sProducts, sReturned, file, amazonVars>>

\* Lines 94-100.
ScrapeLaunch ==
    /\ prog = "scrape" /\ pc = "s_launch"
    /\ \E outcome \in {"ok", "launch_raises", "page_raises"} :
          /\ IF outcome = "launch_raises"
             THEN UNCHANGED <<sessions, sSess>>
             ELSE /\ sessions' = Append(sessions, "open")
                  /\ sSess' = Len(sessions) + 1
          /\ pc' = IF outcome = "ok" THEN "s_goto" ELSE "s_except"
    /\ UNCHANGED <<prog, ingestVars, exOut, vpc, vUrl, vCount, vSess, vScroll, vBlocks,
                   vReviews, vTrace, vResult, sReviewCount, sItems, sIdx,
                   sExtracted, sK, sProducts, sReturned, file, amazonVars>>

\* Lines 102-103.
ScrapeNavigate ==
    /\ prog = "scrape" /\ pc = "s_goto"
    /\ \E raises \in BOOLEAN : pc' = IF raises THEN "s_except" ELSE "s_wait"
    /\ UNCHANGED <<prog, ingestVars, exOut, visitVars, scrapeVars, file, amazonVars>>

\* Lines 106-111: on a timeout the browser is closed and [] is returned.
ScrapeWaitForCards ==
    /\ prog = "scrape" /\ pc = "s_wait"
    /\ \E raises \in BOOLEAN :
          IF raises
          THEN /\ sessions' = MarkSession(sSess, "closed")
               /\ sReturned' = "timeout"
               /\ pc' = "scraped"
          ELSE /\ pc' = "s_query"
               /\ UNCHANGED <<sessions, sReturned>>
    /\ UNCHANGED <<prog, ingestVars, exOut, vpc, vUrl, vCount, vSess, vScroll, vBlocks,
                   vReviews, vTrace, vResult, sReviewCount, sSess, sItems,
                   sIdx, sExtracted, sK, sProducts, file, amazonVars>>

\* Lines 113-116.
ScrapeQueryCards ==
    /\ prog = "scrape" /\ pc = "s_query"
    /\ \E raises \in BOOLEAN :
          IF raises
          THEN /\ pc' = "s_except"
               /\ UNCHANGED sItems
          ELSE /\ \E cards \in SeqsUpTo(CardKinds, MaxCards),
                     max_products \in 0..MaxCards :
                     sItems' = SubSeq(cards, 1,
                                      IF max_products < Len(cards)
                                      THEN max_products ELSE Len(cards))
               /\ pc' = "s_cards"
    /\ UNCHANGED <<prog, ingestVars, exOut, visitVars, sReviewCount, sSess, sIdx,
                   sExtracted, sK, sProducts, sReturned, file, amazonVars>>

\* Lines 117-157 without the try of line 118: what a card raises leaves the
\* loop.
ScrapeCardUnguarded ==
    /\ prog = "scrape" /\ pc = "s_cards"
    /\ sIdx < Len(sItems)
    /\ LET r == ProcessCard(sItems[sIdx + 1], sIdx) IN
          IF r.raised
          THEN /\ pc' = "s_except"
               /\ UNCHANGED <<sExtracted, sIdx>>
          ELSE /\ sExtracted' = IF r.appended THEN Append(sExtracted, r.data)
                                ELSE sExtracted
               /\ sIdx' = sIdx + 1
               /\ UNCHANGED pc
    /\ UNCHANGED <<prog, ingestVars, exOut, visitVars, sReviewCount, sSess, sItems,
                   sK, sProducts, sReturned, file, amazonVars>>

\* Lines 117-157: one iteration of the loop over the cards.
ScrapeCard ==
    /\ prog = "scrape" /\ pc = "s_cards"
    /\ sIdx < Len(sItems)
    /\ LET r == ProcessCard(sItems[sIdx + 1], sIdx) IN
          sExtracted' = IF r.appended THEN Append(sExtracted, r.data)
                        ELSE sExtracted
    /\ sIdx' = sIdx + 1
    /\ UNCHANGED <<prog, ingestVars, pc, exOut, visitVars, sReviewCount, sSess, sItems,
                   sK, sProducts, sReturned, file, amazonVars>>

\* Line 159, then the end of the with block.
ScrapeClose ==
    /\ prog = "scrape" /\ pc = "s_cards"
    /\ sIdx = Len(sItems)
    /\ \E raises \in BOOLEAN :
          IF raises
          THEN /\ pc' = "s_except"
               /\ UNCHANGED sessions
          ELSE /\ sessions' = MarkSession(sSess, "closed")
               /\ pc' = "s_reviews"
    /\ UNCHANGED <<prog, ingestVars, exOut, vpc, vUrl, vCount, vSess, vScroll, vBlocks,
                   vReviews, vTrace, vResult, scrapeVars, file, amazonVars>>

\* Lines 162-163: the call of get_top_reviews for the next record.
ScrapeVisit ==
    /\ prog = "scrape" /\ pc = "s_reviews"
    /\ sK < Len(sExtracted)
    /\ VisitEnter(sExtracted[sK + 1].link, sReviewCount)
    /\ pc' = "s_visiting"
    /\ UNCHANGED <<prog, ingestVars, exOut, sessions, scrapeVars, file, amazonVars>>

\* Lines 164-171: the row of the record, with what the call returned.
ScrapeAppendRow ==
    /\ prog = "scrape" /\ pc = "s_visiting" /\ vpc = "ret"
    /\ LET data == sExtracted[sK + 1] IN
          sProducts' = Append(sProducts,
                              <<data.id, data.title, data.rating,
                                data.reviews_count, data.price, vResult>>)
    /\ sK' = sK + 1
    /\ vpc' = "idle"
    /\ pc' = "s_reviews"
    /\ UNCHANGED <<prog, ingestVars, exOut, vUrl, vCount, vSess, vScroll, vBlocks,
                   vReviews, vTrace, vResult, sessions, sReviewCount, sSess,
                   sItems, sIdx, sExtracted, sReturned, file, amazonVars>>

\* Lines 173-176: an exception leaves the with block and is caught.
ScrapeExcept ==
    /\ prog = "scrape" /\ pc = "s_except"
    /\ sessions' = StopOpenSession(sSess)
    /\ sReturned' = "error"
    /\ pc' = "scraped"
    /\ UNCHANGED <<prog, ingestVars, exOut, vpc, vUrl, vCount, vSess, vScroll, vBlocks,
                   vReviews, vTrace, vResult, sReviewCount, sSess, sItems,
                   sIdx, sExtracted, sK, sProducts, file, amazonVars>>

\* Line 176, after the loop of lines 162-171.
ScrapeReturn ==
    /\ prog = "scrape" /\ pc = "s_reviews"
    /\ sK = Len(sExtracted)
    /\ sReturned' = "ok"
    /\ pc' = "scraped"
    /\ UNCHANGED <<prog, ingestVars, exOut, visitVars, sReviewCount, sSess, sItems, sIdx,
                   sExtracted, sK, sProducts, file, amazonVars>>

\* The list scrape_flipkart_products returns: [] at line 111, products at
\* line 176.
ScrapeResult == IF sReturned = "timeout" THEN <<>> ELSE sProducts

\* Lines 187-190: the header row, then the rows of data.
CsvLines(data) == <<Header>> \o data

\* save_to_csv(data) called with what scrape_flipkart_products returned.
SaveToCsv ==
    /\ prog = "scrape" /\ pc = "scraped"
    /\ file' = [exists |-> TRUE, lines |-> CsvLines(ScrapeResult)]
    /\ pc' = "done"
    /\ UNCHANGED <<prog, ingestVars, exOut, visitVars, scrapeVars, amazonVars>>

ScrapeStep ==
    \/ ScrapeLaunch
    \/ ScrapeNavigate
    \/ ScrapeWaitForCards
    \/ ScrapeQueryCards
    \/ ScrapeCard
    \/ ScrapeClose
    \/ ScrapeVisit
    \/ ScrapeAppendRow
    \/ ScrapeExcept
    \/ ScrapeReturn

(***************************************************************************)
(* convert_amazon_data.stream_amazon_data.  A Python value of a dataset    *)
(* row is tagged with its type and carried as its text (str(value)); a key *)
(* a row does not have is Missing.                                         *)
(***************************************************************************)
Missing == [t |-> "missing", v |-> <<>>]
PyNone == [t |-> "none", v |-> <<"N", "o", "n", "e">>]
PyStr(s) == [t |-> "str", v |-> s]
PyFloat(s) == [t |-> "float", v |-> s]
PyInt(s) == [t |-> "int", v |-> s]

\* d.get(key, default)
PyGet(d, key, default) == IF d[key].t = "missing" THEN default ELSE d[key]

\* bool(value)
Truthy(x) ==
    /\ x.t \notin {"missing", "none"}
    /\ x.t = "str" => x.v # <<>>
    /\ x.t = "int" => x.v # <<"0">>
    /\ x.t = "float" => x.v # <<"0", ".", "0">>

\* MAX_PRODUCTS (line 7)
MAX_PRODUCTS == 50
\* max_scan_limit (line 73)
max_scan_limit == 50000
\* len(title) > 5 (line 45)
MinTitleLength == 5
\* review_text[:200] (line 88)
SnippetLength == 200
\* data["reviews_list"][:5] (line 97)
TopReviewCount == 5

\* s[:n]
Prefix(s, n) == SubSeq(s, 1, IF n < Len(s) THEN n ELSE Len(s))

\* The index of the entry of products with key p_id, 0 if there is none.
KeyIndex(products, p_id) ==
    IF \E k \in DOMAIN products : products[k].product_id = p_id
    THEN CHOOSE k \in DOMAIN products : products[k].product_id = p_id
    ELSE 0

\* products[p_id] = entry: a dict keeps the place of a key it already has.
DictPut(products, entry) ==
    LET k == KeyIndex(products, entry.product_id) IN
    IF k = 0 THEN Append(products, entry) ELSE [products EXCEPT ![k] = entry]

\* Lines 41-53 for one item of the metadata stream.
SelectProduct(products, item) ==
    LET p_id == PyGet(item, "parent_asin", PyNone)
        title == PyGet(item, "title", PyNone)
    IN  IF Truthy(p_id) /\ Truthy(title) /\ Len(title.v) > MinTitleLength
        THEN DictPut(products,
                     [product_id |-> p_id,
                      product_title |-> title,
                      price |-> PyGet(item, "price", PyStr(NA)),
                      rating |-> PyGet(item, "average_rating",
                                       PyFloat(<<"0", ".", "0">>)),
                      total_reviews |-> PyGet(item, "rating_number",
                                              PyInt(<<"0">>)),
                      reviews_list |-> <<>>])
        ELSE products

\* f"{rating}* {review_text[:200]}..." (line 88)
Snippet(rating, review_text) ==
    rating.v \o <<"*", " ">> \o Prefix(review_text.v, SnippetLength)
        \o <<".", ".", ".">>

\* Lines 79-89 for one review of the review stream.
AttachReview(products, review) ==
    LET p_id == PyGet(review, "parent_asin", PyNone)
        k == KeyIndex(products, p_id)
        review_text == PyGet(review, "text", PyStr(<<>>))
        rating == PyGet(review, "rating", PyFloat(<<"5", ".", "0">>))
    IN  IF k # 0 /\ Truthy(review_text)
        THEN [products EXCEPT ![k].reviews_list =
                                  Append(@, Snippet(rating, review_text))]
        ELSE products

\* data["reviews_list"][:5] (line 97): the snippets that are joined.
TopSnippets(reviews_list) == Prefix(reviews_list, TopReviewCount)

\* Lines 97-100 with the sentinel left out.
TopReviewsNoSentinel(reviews_list) == Join(TopSnippets(reviews_list), Delim)

\* Lines 97-100.
TopReviews(reviews_list) ==
    LET top_reviews == Join(TopSnippets(reviews_list), Delim) IN
    IF top_reviews = <<>> THEN NoDetailedReviews ELSE top_reviews

\* Lines 95-109.
FinalRows(products) ==
    [k \in DOMAIN products |->
        [product_id |-> products[k].product_id,
         product_title |-> products[k].product_title,
         rating |-> products[k].rating,
         total_reviews |-> products[k].total_reviews,
         price |-> products[k].price,
         top_reviews |-> PyStr(TopReviews(products[k].reviews_list))]]

\* The columns of pd.DataFrame(final_rows): the keys of the rows, none when
\* there is no row.
DataFrameColumns(rows) == IF rows = <<>> THEN <<>> ELSE Header

\* The cell to_csv writes for a value: nothing for None.
CsvCell(x) == IF x.t = "none" THEN <<>> ELSE x.v

\* df.to_csv(OUTPUT_CSV, index=False): the line of the columns, then a line
\* per row.
DataFrameCsvLines(rows) ==
    LET cols == DataFrameColumns(rows) IN
    <<cols>> \o [k \in DOMAIN rows |->
                    [c \in DOMAIN cols |-> CsvCell(rows[k][cols[c]])]]

\* The rows the two streams may yield.
MetaItem(asin, title, price, rating, number) ==
    [parent_asin |-> asin, title |-> title, price |-> price,
     average_rating |-> rating, rating_number |-> number]
MetaKinds ==
    { MetaItem(PyStr(<<"B", "0", "0", "1">>), PyStr(<<"G", "r", "e", "a", "t", " ", "P", "h", "o", "n", "e", " ", "C", "a", "s", "e">>), PyStr(<<"9", ".", "9", "9">>),
               PyFloat(<<"4", ".", "5">>), PyInt(<<"1", "2", "0">>)),
      MetaItem(PyStr(<<"B", "0", "0", "1">>), PyStr(<<"P", "h", "o", "n", "e", " ", "C", "a", "s", "e", " ", "(", "2", " ", "p", "a", "c", "k", ")">>), Missing, Missing, Missing),
      MetaItem(PyStr(<<"B", "0", "0", "2">>), PyStr(<<"C", "h", "a", "r", "g", "e", "r">>), PyNone, PyNone, PyNone),
      MetaItem(PyStr(<<"B", "0", "0", "3">>), PyStr(<<"C", "a", "s", "e">>), PyStr(<<"9", ".", "9", "9">>), Missing,
               Missing),
      MetaItem(PyNone, PyStr(<<"C", "h", "a", "r", "g", "e", "r">>), Missing, Missing, Missing) }
ReviewItem(asin, text, rating) ==
    [parent_asin |-> asin, text |-> text, rating |-> rating]
ReviewKinds ==
    { ReviewItem(PyStr(<<"B", "0", "0", "1">>), PyStr(<<"w", "o", "r", "k", "s", " ", "g", "r", "e", "a", "t">>), PyFloat(<<"5", ".", "0">>)),
      ReviewItem(PyStr(<<"B", "0", "0", "1">>), PyStr(<<"b", "r", "o", "k", "e", " ", "f", "a", "s", "t">>), PyFloat(<<"1", ".", "0">>)),
      ReviewItem(PyStr(<<"B", "0", "0", "1">>), PyStr(<<>>), PyFloat(<<"1", ".", "0">>)),
      ReviewItem(PyStr(<<"B", "0", "0", "2">>), PyStr(Rep("x", SnippetLength + 1)), Missing),
      ReviewItem(PyStr(<<"B", "0", "0", "9">>), PyStr(<<"w", "o", "r", "k", "s", " ", "g", "r", "e", "a", "t">>), PyFloat(<<"5", ".", "0">>)) }

\* Lines 23-34: the metadata stream is opened.
AmazonLoadMeta ==
    /\ prog = "amazon" /\ pc = "start"
    /\ \E raises \in BOOLEAN : pc' = IF raises THEN "done" ELSE "a_meta"
    /\ UNCHANGED <<prog, ingestVars, exOut, visitVars, scrapeVars, file, amazonVars>>

\* Lines 37-53: one item of the metadata stream.
AmazonMetaItem ==
    /\ prog = "amazon" /\ pc = "a_meta"
    /\ aMetaRead < MaxMeta
    /\ IF Len(aProducts) >= MAX_PRODUCTS
       THEN /\ pc' = "a_load_reviews"
            /\ UNCHANGED <<aProducts, aMetaRead>>
       ELSE /\ \E item \in MetaKinds :
                  aProducts' = SelectProduct(aProducts, item)
            /\ aMetaRead' = aMetaRead + 1
            /\ UNCHANGED pc
    /\ UNCHANGED <<prog, ingestVars, exOut, visitVars, scrapeVars, file, aScanned, aRows>>

\* Line 37: the metadata stream is exhausted.
AmazonMetaEnd ==
    /\ prog = "amazon" /\ pc = "a_meta"
    /\ pc' = "a_load_reviews"
    /\ UNCHANGED <<prog, ingestVars, exOut, visitVars, scrapeVars, file, amazonVars>>

\* Lines 59-68: the review stream is opened.
AmazonLoadReviews ==
    /\ prog = "amazon" /\ pc = "a_load_reviews"
    /\ \E raises \in BOOLEAN : pc' = IF raises THEN "done" ELSE "a_reviews"
    /\ UNCHANGED <<prog, ingestVars, exOut, visitVars, scrapeVars, file, amazonVars>>

\* Lines 75-89: one review of the review stream.
AmazonReview ==
    /\ prog = "amazon" /\ pc = "a_reviews"
    /\ aScanned < MaxScan
    /\ IF aScanned >= max_scan_limit
       THEN /\ pc' = "a_format"
            /\ UNCHANGED <<aProducts, aScanned>>
       ELSE /\ \E review \in ReviewKinds :
                  aProducts' = AttachReview(aProducts, review)
            /\ aScanned' = aScanned + 1
            /\ UNCHANGED pc
    /\ UNCHANGED <<prog, ingestVars, exOut, visitVars, scrapeVars, file, aMetaRead, aRows>>

\* Line 75: the review stream is exhausted.
AmazonReviewsEnd ==
    /\ prog = "amazon" /\ pc = "a_reviews"
    /\ pc' = "a_format"
    /\ UNCHANGED <<prog, ingestVars, exOut, visitVars, scrapeVars, file, amazonVars>>

\* Lines 94-109.
AmazonFormat ==
    /\ prog = "amazon" /\ pc = "a_format"
    /\ aRows' = FinalRows(aProducts)
    /\ pc' = "a_save"
    /\ UNCHANGED <<prog, ingestVars, exOut, visitVars, scrapeVars, file, aMetaRead,
                   aProducts, aScanned>>

\* Lines 111-113.
AmazonSave ==
    /\ prog = "amazon" /\ pc = "a_save"
    /\ file' = [exists |-> TRUE, lines |-> DataFrameCsvLines(aRows)]
    /\ pc' = "saved"
    /\ UNCHANGED <<prog, ingestVars, exOut, visitVars, scrapeVars, amazonVars>>

AmazonStep ==
    \/ AmazonLoadMeta
    \/ AmazonMetaItem
    \/ AmazonMetaEnd
    \/ AmazonLoadReviews
    \/ AmazonReview
    \/ AmazonReviewsEnd
    \/ AmazonFormat
    \/ AmazonSave

(***************************************************************************)
(* data_ingestion.DataIngestion, run by its __main__ block (prog           *)
(* "ingest") or by the Start Ingestion button of scrapper_ui.py (prog      *)
(* "ui").  A cell of the DataFrame is NaN or a value carried as its text.  *)
(***************************************************************************)
\* Line 40.
required_vars ==
    <<"ASTRA_DB_API_ENDPOINT", "ASTRA_DB_APPLICATION_TOKEN",
      "ASTRA_DB_KEYSPACE">>
\* Line 68.
expected_columns == {"product_id", "product_title", "top_reviews"}

NaN == [t |-> "nan", v |-> <<"n", "a", "n">>]

\* pd.isna(val)
IsNa(x) == x.t \in {"nan", "none"}

\* Texts pd.read_csv reads as NaN (among its default na_values).
NaTexts == {<<>>, NA, <<"N", "A">>, <<"N", "a", "N">>, <<"n", "a", "n">>,
            <<"n", "u", "l", "l">>, <<"N", "U", "L", "L">>}

\* The value pd.read_csv gives a cell.
ReadCell(c) == IF c \in NaTexts THEN NaN ELSE PyStr(c)

\* Whether pd.read_csv raises on the file (no columns to parse).
ReadCsvRaises(f) == f.lines = <<>> \/ f.lines[1] = <<>>

\* pd.read_csv(csv_path): the first line names the columns.
ReadCsv(f) ==
    LET cols == f.lines[1] IN
    [columns |-> cols,
     rows |-> [k \in 1..(Len(f.lines) - 1) |->
                  [c \in Range(cols) |->
                      ReadCell(f.lines[k + 1]
                                 [CHOOSE j \in DOMAIN cols : cols[j] = c])]]]

NoDataFrame == [columns |-> <<>>, rows |-> <<>>]

\* row.get(column): None when the frame has no such column.
RowGet(row, column) == IF column \in DOMAIN row THEN row[column] ELSE PyNone

\* get_safe_value (lines 82-83)
get_safe_value(val, default) == IF IsNa(val) THEN default ELSE val

\* str(value)
Str(x) == PyStr(x.v)

\* Lines 85-100 for one row.  The frame has the column product_title (line
\* 70), so row.get("product_title", "Unknown") is the cell.
DocumentOfRow(row) ==
    [page_content |-> Str(get_safe_value(RowGet(row, "top_reviews"),
                                         PyStr(<<>>))),
     metadata |->
        [product_id |-> Str(row["product_id"]),
         product_title |-> Str(IF "product_title" \in DOMAIN row
                               THEN row["product_title"]
                               ELSE PyStr(<<"U", "n", "k", "n", "o", "w", "n">>)),
         rating |-> get_safe_value(RowGet(row, "rating"),
                                   PyFloat(<<"0", ".", "0">>)),
         total_reviews |-> get_safe_value(RowGet(row, "total_reviews"),
                                          PyInt(<<"0">>)),
         price |-> Str(get_safe_value(RowGet(row, "price"), PyStr(NA)))]]

\* transform_data (lines 75-104)
Documents(df) == [k \in DOMAIN df.rows |-> DocumentOfRow(df.rows[k])]

\* The files data/product_reviews.csv may be when the ingestion starts.
NoFile == [exists |-> FALSE, lines |-> <<>>]
CsvRowKinds ==
    { [product_id |-> <<"B", "0", "0", "1">>, product_title |-> <<"G", "r", "e", "a", "t", " ", "P", "h", "o", "n", "e", " ", "C", "a", "s", "e">>, rating |-> <<"4", ".", "5">>,
       total_reviews |-> <<"1", "2", "0">>, price |-> <<"9", ".", "9", "9">>,
       top_reviews |-> <<"5", ".", "0", "*", " ", "w", "o", "r", "k", "s", " ", "g", "r", "e", "a", "t", ".", ".", ".">>],
      [product_id |-> <<"B", "0", "0", "2">>, product_title |-> <<>>, rating |-> <<>>,
       total_reviews |-> <<>>, price |-> <<>>, top_reviews |-> <<>>],
      [product_id |-> <<"i", "t", "m", "A", "1">>, product_title |-> <<"P", "h", "o", "n", "e", " ", "A">>, rating |-> NA,
       total_reviews |-> <<"0">>, price |-> NA,
       top_reviews |-> NoReviewsFound] }
CsvColumnChoices ==
    { Header,
      <<"product_id", "product_title", "top_reviews">>,
      <<"product_id", "product_title", "rating", "total_reviews", "price">> }
CsvFileOf(cols, rows) ==
    [exists |-> TRUE,
     lines |-> <<cols>> \o [k \in DOMAIN rows |->
                              [c \in DOMAIN cols |-> rows[k][cols[c]]]]]
DiskFiles ==
    {NoFile, [exists |-> TRUE, lines |-> << <<>> >>]}
        \cup {CsvFileOf(cols, rows) :
                cols \in CsvColumnChoices, rows \in SeqsUpTo(CsvRowKinds, MaxRows)}

\* scrapper_ui.py:14-20 and 43-51: the page is rendered; the button shows
\* only when the file exists and reads.
UiRender ==
    /\ prog = "ui" /\ pc = "start"
    /\ pc' = IF ~file.exists THEN "ui_no_file"
             ELSE IF ReadCsvRaises(file) THEN "ui_crashed"
             ELSE "ui_ready"
    /\ UNCHANGED <<prog, ingestVars, exOut, visitVars, scrapeVars, file,
                   amazonVars>>

\* The file is removed while the page waits for the button.
CsvRemoved ==
    /\ prog = "ui" /\ pc = "ui_ready"
    /\ file.exists
    /\ file' = NoFile
    /\ UNCHANGED <<prog, pc, ingestVars, exOut, visitVars, scrapeVars,
                   amazonVars>>

\* scrapper_ui.py:32-35, data_ingestion.py:138: DataIngestion() is called.
StartIngestion ==
    /\ \/ prog = "ui" /\ pc = "ui_ready"
       \/ prog = "ingest" /\ pc = "start"
    /\ pc' = "i_env"
    /\ UNCHANGED <<prog, ingestVars, exOut, visitVars, scrapeVars, file,
                   amazonVars>>

\* Line 42.
MissingVars == {v \in Range(required_vars) : v \notin env}

\* A step of DataIngestion ends: it raised the error, or the next step
\* follows.
IngestStep(step, error, next) ==
    /\ iLog' = Append(iLog, step)
    /\ iError' = error
    /\ pc' = IF error # "" THEN "raised" ELSE next

\* _load_env_variables without the check of lines 42-44.
LoadEnvVariablesUnchecked ==
    /\ prog \in {"ingest", "ui"} /\ pc = "i_env"
    /\ IngestStep("load_env", "", "i_model")
    /\ UNCHANGED <<prog, env, iDf, iDocs, iUpserted, exOut, visitVars,
                   scrapeVars, file, amazonVars>>

\* Lines 22, 31-48: _load_env_variables.
LoadEnvVariables ==
    /\ prog \in {"ingest", "ui"} /\ pc = "i_env"
    /\ IngestStep("load_env",
                  IF MissingVars # {} THEN "EnvironmentError" ELSE "",
                  "i_model")
    /\ UNCHANGED <<prog, env, iDf, iDocs, iUpserted, exOut, visitVars,
                   scrapeVars, file, amazonVars>>

\* Line 25: ModelLoader(), which may raise.
CreateModelLoader ==
    /\ prog \in {"ingest", "ui"} /\ pc = "i_model"
    /\ \E error \in {"", "ModelLoaderError"} :
          IngestStep("model_loader", error, "i_path")
    /\ UNCHANGED <<prog, env, iDf, iDocs, iUpserted, exOut, visitVars,
                   scrapeVars, file, amazonVars>>

\* Lines 27, 50-60: _get_csv_path.
GetCsvPath ==
    /\ prog \in {"ingest", "ui"} /\ pc = "i_path"
    /\ IngestStep("csv_path",
                  IF ~file.exists THEN "FileNotFoundError" ELSE "",
                  "i_csv")
    /\ UNCHANGED <<prog, env, iDf, iDocs, iUpserted, exOut, visitVars,
                   scrapeVars, file, amazonVars>>

\* Lines 28, 62-73: _load_csv.
LoadCsv ==
    /\ prog \in {"ingest", "ui"} /\ pc = "i_csv"
    /\ IF ReadCsvRaises(file)
       THEN /\ IngestStep("load_csv", "EmptyDataError", "i_config")
            /\ UNCHANGED iDf
       ELSE /\ iDf' = ReadCsv(file)
            /\ IngestStep("load_csv",
                          IF expected_columns \subseteq Range(file.lines[1])
                          THEN "" ELSE "ValueError",
                          "i_config")
    /\ UNCHANGED <<prog, env, iDocs, iUpserted, exOut, visitVars, scrapeVars,
                   file, amazonVars>>

\* Line 29: load_config(), which may raise.
LoadConfig ==
    /\ prog \in {"ingest", "ui"} /\ pc = "i_config"
    /\ \E error \in {"", "ConfigError"} :
          IngestStep("load_config", error, "i_transform")
    /\ UNCHANGED <<prog, env, iDf, iDocs, iUpserted, exOut, visitVars,
                   scrapeVars, file, amazonVars>>

\* Lines 130, 75-104: run_pipeline calls transform_data.
TransformData ==
    /\ prog \in {"ingest", "ui"} /\ pc = "i_transform"
    /\ iDocs' = Documents(iDf)
    /\ IngestStep("transform", "", "i_store")
    /\ UNCHANGED <<prog, env, iDf, iUpserted, exOut, visitVars, scrapeVars,
                   file, amazonVars>>

\* Lines 131-135, 106-124: the documents, if any, are added to the store.
StoreInVectorDb ==
    /\ prog \in {"ingest", "ui"} /\ pc = "i_store"
    /\ IF iDocs = <<>>
       THEN /\ IngestStep("no_documents", "", "finished")
            /\ UNCHANGED iUpserted
       ELSE \E error \in {"", "StoreError"} :
               /\ IngestStep("store", error, "finished")
               /\ iUpserted' = IF error = "" THEN iUpserted \o iDocs
                               ELSE iUpserted
    /\ UNCHANGED <<prog, env, iDf, iDocs, exOut, visitVars, scrapeVars, file,
                   amazonVars>>

\* The exception reaches the caller: the handler of scrapper_ui.py:39-41
\* shows it, the __main__ block ends with it.
ErrorPropagates ==
    /\ prog \in {"ingest", "ui"} /\ pc = "raised"
    /\ pc' = IF prog = "ui" THEN "ui_failed" ELSE "crashed"
    /\ UNCHANGED <<prog, ingestVars, exOut, visitVars, scrapeVars, file,
                   amazonVars>>

\* run_pipeline returns (scrapper_ui.py:37-38, data_ingestion.py:139).
IngestionDone ==
    /\ prog \in {"ingest", "ui"} /\ pc = "finished"
    /\ pc' = "done"
    /\ UNCHANGED <<prog, ingestVars, exOut, visitVars, scrapeVars, file,
                   amazonVars>>

IngestionStep ==
    \/ UiRender
    \/ CsvRemoved
    \/ StartIngestion
    \/ LoadEnvVariables
    \/ CreateModelLoader
    \/ GetCsvPath
    \/ LoadCsv
    \/ LoadConfig
    \/ TransformData
    \/ StoreInVectorDb
    \/ ErrorPropagates
    \/ IngestionDone

(***************************************************************************)
(* The specification.                                                      *)
(***************************************************************************)
Progs == {"extract", "visit", "scrape", "amazon", "ingest", "ui"}

Init ==
    /\ prog \in Progs
    /\ pc = "start"
    /\ exOut = [called |-> FALSE, item |-> [s \in HarnessSelectors |-> Absent],
                selectors |-> <<>>, value |-> <<>>]
    /\ vpc = "idle"
    /\ vUrl = <<>>
    /\ vCount = 0
    /\ vSess = 0
    /\ vScroll = 0
    /\ vBlocks = <<>>
    /\ vReviews = <<>>
    /\ vTrace = <<>>
    /\ vResult = <<>>
    /\ sessions = <<>>
    /\ sReviewCount = 0
    /\ sSess = 0
    /\ sItems = <<>>
    /\ sIdx = 0
    /\ sExtracted = <<>>
    /\ sK = 0
    /\ sProducts = <<>>
    /\ sReturned = ""
    /\ file \in IF prog \in {"ingest", "ui"} THEN DiskFiles ELSE {NoFile}
    /\ env \in IF prog \in {"ingest", "ui"} THEN SUBSET Range(required_vars)
               ELSE {{}}
    /\ iLog = <<>>
    /\ iDf = NoDataFrame
    /\ iDocs = <<>>
    /\ iUpserted = <<>>
    /\ iError = ""
    /\ aMetaRead = 0
    /\ aProducts = <<>>
    /\ aScanned = 0
    /\ aRows = <<>>

Next ==
    \/ ExtractCall
    \/ HarnessVisit
    \/ VisitStep
    \/ HarnessVisitDone
    \/ HarnessScrape
    \/ ScrapeStep
    \/ SaveToCsv
    \/ AmazonStep
    \/ IngestionStep

Spec == Init /\ [][Next]_vars

(***************************************************************************)
(* Properties.                                                             *)
(***************************************************************************)
Last(s) == s[Len(s)]
Min(S) == CHOOSE x \in S : \A y \in S : x <= y

\* The selectors of a list whose lookup succeeds with a text that is not
\* empty once trimmed.
Hits(item, selectors) ==
    {i \in DOMAIN selectors :
        /\ item[selectors[i]].kind = "el"
        /\ Strip(item[selectors[i]].text) # <<>>}

\* C1: _get_text_safe returns the trimmed text of the first selector, in
\* declared order, whose lookup succeeds with a text that is not empty after
\* trimming, and "N/A" when every selector misses.
C1_FirstNonEmptyOrDefault ==
    exOut.called =>
        exOut.value =
            IF Hits(exOut.item, exOut.selectors) = {} THEN NA
            ELSE Strip(exOut.item[exOut.selectors[
                           Min(Hits(exOut.item, exOut.selectors))]].text)

\* Whether get_top_reviews has run its review loop in the current call.
Extracted == "ExtractReviews" \in Range(vTrace)

\* C2: the snippets joined into top_reviews hold no two equal entries and
\* number at most the cap, in get_top_reviews (cap count) and in
\* stream_amazon_data (cap 5).
C2_DistinctWithinCap ==
    /\ Extracted => NoDuplicates(vReviews) /\ Len(vReviews) <= vCount
    /\ prog = "amazon" /\ pc \in {"a_save", "saved"} =>
          \A k \in DOMAIN aProducts :
             /\ NoDuplicates(TopSnippets(aProducts[k].reviews_list))
             /\ Len(TopSnippets(aProducts[k].reviews_list)) <= TopReviewCount

\* The reference result of the review loop: the cleaned texts of at least
\* MinLength characters, later duplicates dropped, the first count kept.
RECURSIVE Dedup(_)
Dedup(s) ==
    IF s = <<>> THEN <<>>
    ELSE LET front == Dedup(SubSeq(s, 1, Len(s) - 1)) IN
         IF Last(s) \in Range(front) THEN front ELSE Append(front, Last(s))
RECURSIVE LongEnough(_)
LongEnough(blocks) ==
    IF blocks = <<>> THEN <<>>
    ELSE IF Len(CleanText(Head(blocks))) >= MinLength
         THEN <<CleanText(Head(blocks))>> \o LongEnough(Tail(blocks))
         ELSE LongEnough(Tail(blocks))
ReferenceReviews(blocks, count) == Prefix(Dedup(LongEnough(blocks)), count)

\* C3: the reviews get_top_reviews collects are the reference result: texts
\* cleaned of "READ MORE" and trimmed, those shorter than 20 characters
\* dropped (one of exactly 20 kept), later duplicates dropped, the first
\* count survivors kept in discovery order.
C3_ReviewsAreReference ==
    Extracted => vReviews = ReferenceReviews(vBlocks, vCount)

\* Whether the scrape has just appended the row of the visit that returned.
RowAppended == prog = "scrape" /\ pc = "s_reviews" /\ sK > 0

\* The rows emitted so far have a top_reviews that is a string and is not
\* empty.
TopReviewsNotEmpty ==
    /\ \A k \in DOMAIN aRows :
          aRows[k].top_reviews.t = "str" /\ aRows[k].top_reviews.v # <<>>
    /\ \A k \in DOMAIN sProducts : sProducts[k][6] # <<>>
    /\ RowAppended => sProducts[sK][6] = vResult

\* C4 as stated: top_reviews is a non-empty string in every emitted record,
\* and it is "No detailed reviews available." whenever no snippet was
\* collected, in the dataset path and in the scraping path.
C4_SentinelEverywhere ==
    /\ TopReviewsNotEmpty
    /\ \A k \in DOMAIN aRows :
          aProducts[k].reviews_list = <<>> =>
              aRows[k].top_reviews.v = NoDetailedReviews
    /\ RowAppended /\ vReviews = <<>> => sProducts[sK][6] = NoDetailedReviews

\* C4 as amended: top_reviews is a non-empty string in every emitted
\* record; when no snippet was collected it is "No detailed reviews
\* available." in the dataset path and, in the scraping path, "No reviews
\* found", or "Error fetching reviews" when the visit raised.
C4_SentinelPerPath ==
    /\ TopReviewsNotEmpty
    /\ \A k \in DOMAIN aRows :
          aProducts[k].reviews_list = <<>> =>
              aRows[k].top_reviews.v = NoDetailedReviews
    /\ RowAppended /\ vReviews = <<>> =>
          sProducts[sK][6] = IF Last(vTrace) = "Except"
                             THEN ErrorFetchingReviews ELSE NoReviewsFound

\* A scraped row whose visit collected no snippet and did not raise.
C4_Witness ==
    /\ RowAppended /\ vReviews = <<>> /\ Extracted
    /\ sProducts[sK][6] = NoReviewsFound

\* C5: the product_id values of the records of one batch are pairwise
\* distinct, in stream_amazon_data and in scrape_flipkart_products.
C5_UniqueProductIds ==
    /\ \A i, j \in DOMAIN aRows :
          i # j => aRows[i].product_id # aRows[j].product_id
    /\ \A i, j \in DOMAIN sProducts : i # j => sProducts[i][1] # sProducts[j][1]

\* C6: no emitted record or document has a null member: a row of
\* stream_amazon_data has no None in price, rating or total_reviews, and a
\* document of transform_data has no NaN member and has the title "Unknown"
\* for a missing product_title cell.
C6_NoNullMember ==
    /\ \A k \in DOMAIN aRows :
          ~IsNa(aRows[k].price) /\ ~IsNa(aRows[k].rating)
              /\ ~IsNa(aRows[k].total_reviews)
    /\ \A k \in DOMAIN iDocs :
          /\ \A f \in DOMAIN iDocs[k].metadata : ~IsNa(iDocs[k].metadata[f])
          /\ IsNa(iDf.rows[k]["product_title"]) =>
                iDocs[k].metadata.product_title.v
                    = <<"U", "n", "k", "n", "o", "w", "n">>

\* C7: the file written by save_to_csv and by stream_amazon_data begins with
\* the header and has one row per record of the batch, the empty batch
\* included.
C7_HeaderThenRows ==
    /\ prog = "scrape" /\ file.exists =>
          file.lines[1] = Header /\ Len(file.lines) = 1 + Len(ScrapeResult)
    /\ prog = "amazon" /\ file.exists =>
          file.lines[1] = Header /\ Len(file.lines) = 1 + Len(aRows)

Ran(step) == step \in Range(iLog)
Aborted == pc \in {"raised", "crashed", "ui_failed"}

\* C8: a required variable that is not set makes DataIngestion raise before
\* the model loader is made, the CSV read or a document transformed; a CSV
\* file that is absent makes it raise before any transformation; the error
\* reaches the caller, nothing runs after it and no document is upserted.
C8_SetupFailuresAreFatal ==
    /\ MissingVars # {} /\ Ran("load_env") =>
          /\ iLog = <<"load_env">> /\ iError = "EnvironmentError" /\ Aborted
          /\ iDf = NoDataFrame /\ iDocs = <<>> /\ iUpserted = <<>>
    /\ ~file.exists /\ Ran("csv_path") =>
          /\ Last(iLog) = "csv_path" /\ iError = "FileNotFoundError"
          /\ Aborted
          /\ iDf = NoDataFrame /\ iDocs = <<>> /\ iUpserted = <<>>
    /\ Ran("model_loader") \/ Ran("csv_path") => MissingVars = {}
    /\ Ran("transform") => file.exists /\ MissingVars = {}
    /\ iError # "" => Aborted
    /\ pc \in {"crashed", "ui_failed"} => iError # ""

\* The button was pressed, the variables were set and the file was gone.
C8_Witness ==
    pc = "ui_failed" /\ iError = "FileNotFoundError" /\ Ran("model_loader")

\* C9: when get_top_reviews or scrape_flipkart_products has returned, every
\* browser it launched has been closed by browser.close().
C9_EveryBrowserClosed ==
    /\ vpc = "ret" /\ vSess # 0 => sessions[vSess] = "closed"
    /\ prog = "scrape" /\ pc \in {"scraped", "done"} /\ sSess # 0 =>
          sessions[sSess] = "closed"

\* The steps of a visit that nothing interrupts.
FullVisit ==
    <<"Launch", "Navigate", "DismissOverlay">>
        \o [i \in 1..ScrollIterations |-> "Scroll"]
        \o <<"ParseDOM", "ExtractReviews", "Close", "Return">>

IsPrefix(p, s) == Len(p) <= Len(s) /\ p = SubSeq(s, 1, Len(p))

\* The steps so far are those of the state machine, each once and in order,
\* or they were cut short by an exception in a step other than the overlay
\* dismissal.
FollowsStateMachine ==
    \/ IsPrefix(vTrace, FullVisit)
    \/ /\ Len(vTrace) >= 2 /\ Last(vTrace) = "Except"
       /\ IsPrefix(SubSeq(vTrace, 1, Len(vTrace) - 1), FullVisit)
       /\ vTrace[Len(vTrace) - 1] \notin {"DismissOverlay", "Return"}

\* What a finished visit returns when nothing raises.
ReturnsJoinedReviews ==
    vpc = "ret" /\ vTrace # <<>> /\ Last(vTrace) = "Return" =>
        /\ Len(vTrace) = Len(FullVisit)
        /\ vResult = IF vReviews = <<>> THEN NoReviewsFound
                     ELSE Join(vReviews, Delim)

\* A finished visit in which a step after the launch raised.
RaisedInStep ==
    /\ vpc = "ret" /\ Len(vTrace) >= 2 /\ Last(vTrace) = "Except"
    /\ vTrace[Len(vTrace) - 1] # "Launch"

\* C10 as stated: a visit follows Navigate, DismissOverlayIfPresent, five
\* scrolls, ParseDOM, ExtractReviews, Close with no step repeated; a failed
\* overlay dismissal is swallowed; an exception in another step skips the
\* steps left and the visit returns "No reviews found".
C10_ExceptionGivesNoReviewsFound ==
    /\ FollowsStateMachine
    /\ ReturnsJoinedReviews
    /\ RaisedInStep => vResult = NoReviewsFound

\* C10 as amended: the same state machine, and an exception in a step other
\* than the overlay dismissal makes the visit return "Error fetching
\* reviews", not the "No reviews found" of a visit that collects nothing.
C10_ExceptionGivesErrorFetching ==
    /\ FollowsStateMachine
    /\ ReturnsJoinedReviews
    /\ RaisedInStep => vResult = ErrorFetchingReviews

\* A visit whose scroll loop raised after the overlay step.
C10_Witness ==
    /\ RaisedInStep /\ vTrace[Len(vTrace) - 1] = "Scroll"
    /\ vResult = ErrorFetchingReviews

\* The records of the cards of items that did not raise, in the order of the
\* cards, each made from its card and its index alone: what a run in which
\* no card fails appends for these cards.
RECURSIVE RecordsFrom(_, _)
RecordsFrom(items, i) ==
    IF items = <<>> THEN <<>>
    ELSE LET r == ProcessCard(Head(items), i) IN
         (IF ~r.raised /\ r.appended THEN <<r.data>> ELSE <<>>)
             \o RecordsFrom(Tail(items), i + 1)

\* The call of get_top_reviews that has returned raised an exception.
VisitFailed == \E k \in DOMAIN vTrace : vTrace[k] = "Except"

\* What a visit that does not fail returns for a link and a page.
ReviewsOf(link, blocks, count) ==
    IF ~StartsWith(link, Http) THEN NoReviewsFound
    ELSE JoinReviews(CollectReviews(blocks, count))

\* The run is never cut short by a card: the handler of line 173 is reached
\* only with no card left to process, and never from the review loop.
NoCardAbortsTheRun ==
    /\ pc = "s_except" \/ sReturned = "error"
          => sIdx = Len(sItems) /\ sK = 0 /\ sProducts = <<>>
    /\ sReturned = "ok" => sIdx = Len(sItems) /\ sK = Len(sExtracted)

\* The rows made so far are those of the cards that did not raise, in order.
RowsFollowCards ==
    /\ sExtracted = RecordsFrom(SubSeq(sItems, 1, sIdx), 0)
    /\ Len(sProducts) = sK
    /\ \A k \in 1..sK :
          LET data == sExtracted[k] IN
          SubSeq(sProducts[k], 1, 5)
              = <<data.id, data.title, data.rating, data.reviews_count,
                  data.price>>

\* The row just appended, when its visit did not fail, holds the reviews of
\* its own page, whatever happened to the cards before it.
LastRowFromItsPage ==
    RowAppended /\ ~VisitFailed
        => sProducts[sK][6]
               = ReviewsOf(sExtracted[sK].link, vBlocks, sReviewCount)

\* A step leaves the rows already made as they are.
RowsAreKept == IsPrefix(sProducts, sProducts')

\* C11: in scrape_flipkart_products a card whose field extraction raises and
\* a card whose review-page visit fails do not end the run; the cards that
\* do not fail are processed in order, and the row of each is the row made
\* from that card, its index and its page alone, as in a run in which no
\* card fails.
C11_FailureIsolation ==
    /\ [](prog = "scrape"
             => NoCardAbortsTheRun /\ RowsFollowCards /\ LastRowFromItsPage)
    /\ [][RowsAreKept]_vars

\* A run that returned two rows: the visit of the first card failed, and the
\* second card has the reviews of its page.
C11_Witness ==
    /\ prog = "scrape" /\ sReturned = "ok" /\ Len(sProducts) = 2
    /\ sProducts[1][6] = ErrorFetchingReviews
    /\ ~VisitFailed
    /\ sProducts[2][6] = Rep("a", 21) \o Delim \o Rep("e", 22)

\* A run that returned after a card raised: the card after it has its row.
C11_SkippedCard ==
    /\ prog = "scrape" /\ sReturned = "ok" /\ Len(sItems) = 2
    /\ ProcessCard(sItems[1], 0).raised
    /\ Len(sProducts) = 1
    /\ sProducts[1][1] = ItemId(1)

====
